---- MODULE Spec2Model ----
(***************************************************************************)
(* betterspeedtest.py: the measurement orchestrator `main`, its generator  *)
(* sessions (netperf subprocesses), the latency probe (icmplib async_ping) *)
(* and the report printer `print_result`.                                  *)
(*                                                                         *)
(* Time is counted in ticks of 1/TicksPerSecond seconds, so that a probe   *)
(* interval is an exact rational number of seconds.  One action of the     *)
(* orchestrator is the code of `main` between two of its await points.     *)
(* The clock only moves to instants at which something can happen: the     *)
(* next pending deadline, or one more second spent inside an awaited       *)
(* subprocess launch.                                                      *)
(***************************************************************************)
EXTENDS Integers, Sequences, FiniteSets, TLC

\* ---------------------------------------------------------------- bounds
TicksPerSecond == 3
MaxIntervalTicks == 4
MaxLength == 2
MaxWarmup == 1
MaxNum == 2
MaxLaunchDelay == 3

\* ------------------------------------------------------------ state
VARIABLES
    args,        \* argparse.Namespace: idle, num, warmup, length, interval, direction
    pc,          \* where `main` is suspended
    error,       \* the exception that ended the run, "none" otherwise
    now,         \* wall clock, in ticks
    procs,       \* the netperf subprocesses, in launch order
    launchWait,  \* seconds spent so far inside awaited launches
    wakeAt,      \* deadline of the pending asyncio.sleep
    ping,        \* the ping task
    pingCalls,   \* number of async_ping tasks created
    speed,       \* sum(speeds)
    out,         \* lines printed on stdout
    endTime      \* clock when the run terminated

vars == <<args, pc, error, now, procs, launchWait, wakeAt, ping, pingCalls, speed, out, endTime>>

\* ------------------------------------------------------------ arithmetic
\* math.ceil(a / b) for integers a, b with b # 0
CeilDiv(a, b) ==
    IF b > 0 THEN 0 - ((0 - a) \div b) ELSE 0 - (a \div (0 - b))

\* mutant of Count: the quotient truncated instead of rounded up
CountMutFloor(len, i) ==
    IF i > 0 THEN (len * TicksPerSecond) \div i ELSE 0 - ((len * TicksPerSecond) \div (0 - i))

\* count = int(ceil(args.length / args.interval)); the interval is i ticks
Count(len, i) == CeilDiv(len * TicksPerSecond, i)

\* the second rounding taken downwards
LengthMutFloor(len, i) == (Count(len, i) * i) \div TicksPerSecond

\* length = int(ceil(count * args.interval)), in seconds
Length(len, i) == CeilDiv(Count(len, i) * i, TicksPerSecond)

\* mutant of SessionLength: the warmup left out
SessionLengthMutNoWarmup(a) == Length(a.length, a.interval) + 2

\* mutant of SessionLength: the 2-second margin left out
SessionLengthMutNoMargin(a) == Length(a.length, a.interval) + a.warmup

\* the -l argument given to every netperf: length + args.warmup + 2
SessionLength(a) == Length(a.length, a.interval) + a.warmup + 2

\* mutant of SumSeq: the last element instead of the sum
SumSeqMutLast(s) == IF s = <<>> THEN 0 ELSE s[Len(s)]

\* sum(speeds), also the sums inside print_result
RECURSIVE SumSeq(_)
SumSeq(s) == IF s = <<>> THEN 0 ELSE Head(s) + SumSeq(Tail(s))

Abs(x) == IF x < 0 THEN 0 - x ELSE x

\* ------------------------------------------------------------ float(stdout.strip())
Digits == <<"0", "1", "2", "3", "4", "5", "6", "7", "8", "9">>

IsSpace(c) == c \in {" ", "\n", "\t"}

IsDigit(c) == \E d \in 1..10 : Digits[d] = c

DigitValue(c) == (CHOOSE d \in 1..10 : Digits[d] = c) - 1

RECURSIVE LStrip(_)
LStrip(s) == IF s # <<>> /\ IsSpace(Head(s)) THEN LStrip(Tail(s)) ELSE s

RECURSIVE RStrip(_)
RStrip(s) ==
    IF s # <<>> /\ IsSpace(s[Len(s)]) THEN RStrip(SubSeq(s, 1, Len(s) - 1)) ELSE s

Strip(s) == RStrip(LStrip(s))

RECURSIVE DecimalValue(_)
DecimalValue(s) ==
    IF s = <<>> THEN 0
    ELSE DecimalValue(SubSeq(s, 1, Len(s) - 1)) * 10 + DigitValue(s[Len(s)])

\* mutant of ParseFloat: output that is no number reads as 0.0
ParseFloatMutLenient(s) ==
    LET t == Strip(s) IN
    IF t # <<>> /\ \A j \in 1..Len(t) : IsDigit(t[j])
    THEN [ok |-> TRUE, value |-> DecimalValue(t)]
    ELSE [ok |-> TRUE, value |-> 0]

\* The parsed value (whole Mbps), or ValueError for anything that is not a
\* run of decimal digits once stripped.
ParseFloat(s) ==
    LET t == Strip(s) IN
    IF t # <<>> /\ \A j \in 1..Len(t) : IsDigit(t[j])
    THEN [ok |-> TRUE, value |-> DecimalValue(t)]
    ELSE [ok |-> FALSE, value |-> 0]

\* what a netperf may leave on its standard output
Stdouts == { <<"7", "\n">>, <<"0", "\n">>, <<>>, <<"x", "\n">> }

ReturnCodes == {0, 1}

\* a netperf that ran its full length: one number, exit status 0
NominalStdouts == { <<"7", "\n">> }

NominalCodes == {0}

\* the outputs float() accepts, the measured throughput being 0 or not
ValidStdouts == { <<"7", "\n">>, <<"0", "\n">> }

\* ------------------------------------------------------------ latency probe
NoPing ==
    [state |-> "none", count |-> 0, interval |-> 0, start |-> 0, ended |-> 0, rtts |-> <<>>]

\* Run time of async_ping(count, interval): count probes, interval apart.
\* A count or an interval that is not positive sends at once or not at all.
ProbeRuntime(count, i) == IF count > 0 /\ i > 0 THEN count * i ELSE 0

ProbeDeadline == ping.start + ProbeRuntime(ping.count, ping.interval)

\* round-trip times (msec) a finished probe may hold, in arrival order
RttFamily == { <<>>, <<4>>, <<6, 2>>, <<9, 1, 5>> }

RttChoices(count) == { r \in RttFamily : Len(r) <= count }

\* mutant of CreatePingTask: the requested length passed as the probe count
CreatePingTaskMutCount(a) ==
    [state |-> "running", count |-> a.length, interval |-> a.interval,
     start |-> now, ended |-> 0, rtts |-> <<>>]

\* asyncio.create_task(async_ping(args.ping, count=count, interval=args.interval, ...))
CreatePingTask(a) ==
    [state |-> "running", count |-> Count(a.length, a.interval), interval |-> a.interval,
     start |-> now, ended |-> 0, rtts |-> <<>>]

\* ------------------------------------------------------------ print_result
RECURSIVE Insert(_, _)
Insert(x, s) ==
    IF s = <<>> THEN <<x>>
    ELSE IF x <= Head(s) THEN <<x>> \o s
    ELSE <<Head(s)>> \o Insert(x, Tail(s))

RECURSIVE Sorted(_)
Sorted(s) == IF s = <<>> THEN <<>> ELSE Insert(Head(s), Sorted(Tail(s)))

\* mutant of Percentile: the sample at the floor rank, no interpolation
PercentileMutLower(a, p) == a[(p * (Len(a) - 1)) \div 100 + 1] * 1000

\* numpy.percentile(a, p) of a non-empty ascending list, in thousandths:
\* rank = p/100 * (n-1), interpolated between the floor and ceil ranks
Percentile(a, p) ==
    LET n    == Len(a)
        r100 == p * (n - 1)
        lo   == r100 \div 100
        hi   == IF r100 % 100 = 0 THEN lo ELSE lo + 1
    IN  a[lo + 1] * 1000 + (a[hi + 1] - a[lo + 1]) * (r100 % 100) * 10

RECURSIVE MinSeq(_)
MinSeq(s) ==
    IF Len(s) = 1 THEN s[1]
    ELSE LET m == MinSeq(Tail(s)) IN IF Head(s) < m THEN Head(s) ELSE m

RECURSIVE MaxSeq(_)
MaxSeq(s) ==
    IF Len(s) = 1 THEN s[1]
    ELSE LET m == MaxSeq(Tail(s)) IN IF Head(s) > m THEN Head(s) ELSE m

\* x / y rounded to the nearest integer (y > 0, x >= 0)
RoundDiv(x, y) == (2 * x + y) \div (2 * y)

\* icmplib Host properties, in thousandths of a msec; 0.0 without samples
MinRtt(r) == IF r = <<>> THEN 0 ELSE MinSeq(r) * 1000

MaxRtt(r) == IF r = <<>> THEN 0 ELSE MaxSeq(r) * 1000

AvgRtt(r) == IF r = <<>> THEN 0 ELSE RoundDiv(SumSeq(r) * 1000, Len(r))

Jitter(r) ==
    IF Len(r) < 2 THEN 0
    ELSE RoundDiv(SumSeq([j \in 1..(Len(r) - 1) |-> Abs(r[j + 1] - r[j])]) * 1000, Len(r) - 1)

\* packet_loss * 100 with two decimals: hundredths of a percent
LossPercent(sent, received) ==
    IF sent <= 0 THEN 0 ELSE RoundDiv((sent - received) * 10000, sent)

Line(label, value) == [label |-> label, value |-> value, nan |-> FALSE, loss |-> 0]

NanLine(label) == [label |-> label, value |-> 0, nan |-> TRUE, loss |-> 0]

ReportLabels ==
    {"Upload", "Download", "Latency:", "Min:", "10pct:", "Median:", "Avg:",
     "90pct:", "Max:", "Jitter:"}

\* `if speed:` and the throughput line, f'{dir_msg:>9} {speed:.2f} Mbps' (hundredths)
SpeedLines(a, spd, hasSpeed) ==
    IF hasSpeed /\ spd # 0
    THEN <<Line(IF a.direction = "up" THEN "Upload" ELSE "Download", spd * 100)>>
    ELSE <<>>

\* the lines print_result writes before its first numpy.percentile call
ReportHead(a, p, spd, hasSpeed) ==
    SpeedLines(a, spd, hasSpeed)
    \o << [label |-> "Latency:", value |-> p.count,
           nan |-> FALSE, loss |-> LossPercent(p.count, Len(p.rtts))],
          Line("Min:", MinRtt(p.rtts)) >>

\* the lines from the first numpy.percentile call on, for a non-empty sample list
ReportTail(r) ==
    LET s == Sorted(r) IN
    << Line("10pct:", Percentile(s, 10)),
       Line("Median:", Percentile(s, 50)),
       Line("Avg:", AvgRtt(r)),
       Line("90pct:", Percentile(s, 90)),
       Line("Max:", MaxRtt(r)),
       Line("Jitter:", Jitter(r)) >>

\* the same lines when numpy.percentile of an empty list yields nan
ReportTailNan(r) ==
    << NanLine("10pct:"), NanLine("Median:"), Line("Avg:", AvgRtt(r)),
       NanLine("90pct:"), Line("Max:", MaxRtt(r)), Line("Jitter:", Jitter(r)) >>

\* ------------------------------------------------------------ initial state
ArgSpace ==
    [idle : BOOLEAN, num : 0..MaxNum, warmup : 0..MaxWarmup, length : 1..MaxLength,
     interval : (0 - 1)..MaxIntervalTicks, direction : {"up", "down"}]

Init ==
    /\ args \in ArgSpace
    /\ pc = "start"
    /\ error = "none"
    /\ now = 0
    /\ procs = <<>>
    /\ launchWait = 0
    /\ wakeAt = 0
    /\ ping = NoPing
    /\ pingCalls = 0
    /\ speed = 0
    /\ out = <<>>
    /\ endTime = 0

Terminated == pc \in {"done", "error"}

\* an exception propagates out of main and asyncio.run ends the process
Raise(e) ==
    /\ pc' = "error"
    /\ error' = e
    /\ endTime' = now

\* ------------------------------------------------------------ main, load mode
\* a netperf runs for its -l argument, counted from its launch
SessionDeadline(p) == p.launched + p.length * TicksPerSecond

\* run_netperf: the subprocess create_subprocess_exec returns
NewProc(a) ==
    [state |-> "running", launched |-> now, length |-> SessionLength(a),
     stdout |-> <<>>, returncode |-> 0, value |-> 0]

\* mutant of RunTest: the sessions are gathered with no probe started
RunTestMutNoProbe(o) ==
    /\ out' = Append(o, Line("Running test...", 0))
    /\ pc' = IF args.num >= 1 THEN "gather" ELSE "await_ping"
    /\ UNCHANGED <<ping, pingCalls, wakeAt, speed, error, endTime>>

\* lines 66-73 up to the next await: the probe is started, then the sessions
\* are gathered; gather() of no session is done at once and sum([]) is 0
RunTest(o) ==
    /\ out' = Append(o, Line("Running test...", 0))
    /\ ping' = CreatePingTask(args)
    /\ pingCalls' = pingCalls + 1
    /\ pc' = IF args.num >= 1 THEN "gather" ELSE "await_ping"
    /\ UNCHANGED <<wakeAt, speed, error, endTime>>

\* mutant of SleepUntil: the sleep returns at once
SleepUntilMutNoWait(a) == now

\* asyncio.sleep(args.warmup): the timer is due warmup seconds from now
SleepUntil(a) == now + a.warmup * TicksPerSecond

\* lines 62-64: the warmup delay, entered once every launch has returned
AfterLaunches(o) ==
    IF args.warmup > 0
    THEN /\ out' = Append(o, Line("Warming up", args.warmup))
         /\ wakeAt' = SleepUntil(args)
         /\ pc' = "warmup"
         /\ UNCHANGED <<ping, pingCalls, speed, error, endTime>>
    ELSE RunTest(o)

\* lines 45-58: the timing parameters, then idle mode's probe or the banner
\* and the first launch of load mode
Start ==
    /\ pc = "start"
    /\ IF args.interval = 0
       THEN /\ Raise("ZeroDivisionError")
            /\ UNCHANGED <<ping, pingCalls, out, wakeAt, speed>>
       ELSE IF args.idle
       THEN /\ out' = <<Line("pinging", Length(args.length, args.interval))>>
            /\ ping' = CreatePingTask(args)
            /\ pingCalls' = pingCalls + 1
            /\ pc' = "idle_wait"
            /\ UNCHANGED <<wakeAt, speed, error, endTime>>
       ELSE IF args.num >= 1
       THEN /\ out' = <<Line("netperfs", Length(args.length, args.interval))>>
            /\ pc' = "launch"
            /\ UNCHANGED <<ping, pingCalls, wakeAt, speed, error, endTime>>
       ELSE AfterLaunches(<<Line("netperfs", Length(args.length, args.interval))>>)
    /\ UNCHANGED <<args, now, procs, launchWait>>

\* mutant of LaunchesDone: the loop left after its first launch
LaunchesDoneMutFirst(n) == n >= 1

\* lines 60-61: range(args.num) is exhausted after n launches
LaunchesDone(n) == n = args.num

\* line 60: one awaited run_netperf returns its process; after the last one
\* main runs on to its next await
LaunchReturn ==
    /\ pc = "launch"
    /\ Len(procs) < args.num
    /\ procs' = Append(procs, NewProc(args))
    /\ IF LaunchesDone(Len(procs) + 1)
       THEN AfterLaunches(out)
       ELSE UNCHANGED <<pc, out, wakeAt, ping, pingCalls, speed, error, endTime>>
    /\ UNCHANGED <<args, now, launchWait>>

\* line 18: create_subprocess_exec raises (no netperf binary, no more processes)
LaunchFail ==
    /\ pc = "launch"
    /\ Len(procs) < args.num
    /\ Raise("OSError")
    /\ UNCHANGED <<args, now, procs, launchWait, wakeAt, ping, pingCalls, speed, out>>

\* line 64: the warmup sleep is over, once its timer is due
WarmupDone(timed) ==
    /\ pc = "warmup"
    /\ timed => now = wakeAt
    /\ RunTest(out)
    /\ UNCHANGED <<args, now, procs, launchWait>>

\* mutant of GatherDone: gather returns on the first result
GatherDoneMutAny(q) == \E j \in 1..Len(q) : q[j].state = "collected"

\* mutant of GatherDone: gather waits for one more result than there are sessions
GatherDoneMutNever(q) == Len(q) > args.num

\* line 70: gather returns once every get_netperf has returned
GatherDone(q) == \A j \in 1..Len(q) : q[j].state = "collected"

\* lines 23-25 and 69-71: get_netperf of an exited process reads what the
\* process wrote (one of `outputs`, with an exit status of `codes`).  A result
\* that does not parse raises out of gather; the last result makes sum(speeds).
GetNetperf(i, outputs, codes) ==
    /\ pc = "gather"
    /\ procs[i].state = "exited"
    /\ \E so \in outputs, rc \in codes :
          \E r \in {ParseFloat(so)} :
          LET q == [procs EXCEPT ![i].state = "collected", ![i].stdout = so,
                                 ![i].returncode = rc, ![i].value = r.value]
          IN  /\ procs' = q
              /\ IF ~r.ok
                 THEN /\ Raise("ValueError")
                      /\ UNCHANGED speed
                 ELSE /\ IF GatherDone(q)
                         THEN /\ speed' = SumSeq([j \in 1..Len(q) |-> q[j].value])
                              /\ pc' = "await_ping"
                         ELSE UNCHANGED <<speed, pc>>
                      /\ UNCHANGED <<error, endTime>>
    /\ UNCHANGED <<args, now, launchWait, wakeAt, ping, pingCalls, out>>

\* lines 52-53 and 73-74: the awaited ping task is over.  Its exception
\* propagates; otherwise print_result writes the report, and with no sample
\* numpy.percentile either raises after the first lines or yields nan.
AwaitPing ==
    /\ pc \in {"idle_wait", "await_ping"}
    /\ ping.state \in {"done", "failed"}
    /\ IF ping.state = "failed"
       THEN /\ Raise("PingError")
            /\ UNCHANGED out
       ELSE LET head == out \o ReportHead(args, ping, speed, pc = "await_ping") IN
            IF ping.rtts # <<>>
            THEN /\ out' = head \o ReportTail(ping.rtts)
                 /\ pc' = "done"
                 /\ endTime' = now
                 /\ UNCHANGED error
            ELSE \/ /\ out' = head
                    /\ Raise("IndexError")
                 \/ /\ out' = head \o ReportTailNan(ping.rtts)
                    /\ pc' = "done"
                    /\ endTime' = now
                    /\ UNCHANGED error
    /\ UNCHANGED <<args, now, procs, launchWait, wakeAt, ping, pingCalls, speed>>

\* ------------------------------------------------------------ environment
\* a netperf exits: when its run is over, or whenever durations are left open
SessionExit(i, timed) ==
    /\ ~Terminated
    /\ procs[i].state = "running"
    /\ timed => now = SessionDeadline(procs[i])
    /\ procs' = [procs EXCEPT ![i].state = "exited"]
    /\ UNCHANGED <<args, pc, error, now, launchWait, wakeAt, ping, pingCalls, speed, out, endTime>>

\* async_ping returns its Host once all its probes are sent
PingComplete(timed) ==
    /\ ~Terminated
    /\ ping.state = "running"
    /\ timed => now = ProbeDeadline
    /\ \E r \in RttChoices(ping.count) :
          ping' = [ping EXCEPT !.state = "done", !.ended = now, !.rtts = r]
    /\ UNCHANGED <<args, pc, error, now, procs, launchWait, wakeAt, pingCalls, speed, out, endTime>>

\* async_ping raises (name lookup, socket permission): the task holds the exception
PingFail ==
    /\ ~Terminated
    /\ ping.state = "running"
    /\ ping' = [ping EXCEPT !.state = "failed", !.ended = now]
    /\ UNCHANGED <<args, pc, error, now, procs, launchWait, wakeAt, pingCalls, speed, out, endTime>>

\* ------------------------------------------------------------ clock
Deadlines ==
    { SessionDeadline(procs[i]) : i \in { j \in 1..Len(procs) : procs[j].state = "running" } }
    \cup (IF ping.state = "running" THEN {ProbeDeadline} ELSE {})
    \cup (IF pc = "warmup" THEN {wakeAt} ELSE {})

CanReach(t) == \A d \in Deadlines : t <= d

\* time passes up to the next deadline
Advance ==
    /\ ~Terminated
    /\ \E t \in Deadlines :
          /\ t > now
          /\ CanReach(t)
          /\ now' = t
    /\ UNCHANGED <<args, pc, error, procs, launchWait, wakeAt, ping, pingCalls, speed, out, endTime>>

\* one more second goes by inside the awaited launch of a further session
LaunchDelay ==
    /\ pc = "launch"
    /\ Len(procs) >= 1
    /\ launchWait < MaxLaunchDelay
    /\ CanReach(now + TicksPerSecond)
    /\ now' = now + TicksPerSecond
    /\ launchWait' = launchWait + 1
    /\ UNCHANGED <<args, pc, error, procs, wakeAt, ping, pingCalls, speed, out, endTime>>

\* ------------------------------------------------------------ specifications
\* Durations left open: a session or the probe may end at any moment or never.
Next ==
    \/ Start
    \/ LaunchReturn
    \/ LaunchFail
    \/ WarmupDone(FALSE)
    \/ \E i \in 1..Len(procs) : GetNetperf(i, Stdouts, ReturnCodes)
    \/ AwaitPing
    \/ \E i \in 1..Len(procs) : SessionExit(i, FALSE)
    \/ PingComplete(FALSE)
    \/ PingFail

Spec == Init /\ [][Next]_vars

\* Sessions that come to an end with a valid result: a number on standard
\* output and exit status 0.  Launches and the probe may fail as before.
LiveNext ==
    \/ Start
    \/ LaunchReturn
    \/ LaunchFail
    \/ WarmupDone(FALSE)
    \/ \E i \in 1..Len(procs) : GetNetperf(i, ValidStdouts, NominalCodes)
    \/ AwaitPing
    \/ \E i \in 1..Len(procs) : SessionExit(i, FALSE)
    \/ PingComplete(FALSE)
    \/ PingFail

\* the event loop runs whatever is ready, and every launched session and the
\* probe come to an end: some step is taken as long as one is possible
LiveSpec == Init /\ [][LiveNext]_vars /\ WF_vars(LiveNext)

\* Durations as configured: every session runs for its -l argument and then
\* writes its result, the probe runs for count * interval unless it fails, the
\* sleep lasts args.warmup, and a launch may take time.
TimedNext ==
    \/ Start
    \/ LaunchReturn
    \/ LaunchFail
    \/ WarmupDone(TRUE)
    \/ \E i \in 1..Len(procs) : GetNetperf(i, NominalStdouts, NominalCodes)
    \/ AwaitPing
    \/ \E i \in 1..Len(procs) : SessionExit(i, TRUE)
    \/ PingComplete(TRUE)
    \/ PingFail
    \/ Advance
    \/ LaunchDelay

TimedSpec == Init /\ [][TimedNext]_vars

\* ------------------------------------------------------------ properties
LoadMode == ~args.idle

WarmupTicks == args.warmup * TicksPerSecond

\* the parameters the specification allows: interval > 0, and num >= 1 under load
ValidConfig == args.interval > 0 /\ (LoadMode => args.num >= 1)

ReportPrinted == \E k \in 1..Len(out) : out[k].label \in ReportLabels

ThroughputPrinted == \E k \in 1..Len(out) : out[k].label \in {"Upload", "Download"}

\* C1: in load mode every launch has returned before the warmup sleep begins,
\* no probe exists before the sleep is over, and the probe starts exactly
\* warmup seconds after the last launch (at the last launch when warmup is 0).
C1_LaunchesThenWarmupThenProbe ==
    LoadMode =>
        /\ pc \in {"start", "launch", "warmup"} => ping.state = "none"
        /\ pc = "warmup" =>
              /\ Len(procs) = args.num
              /\ \A i \in 1..Len(procs) : procs[i].launched + WarmupTicks <= wakeAt
        /\ ping.state # "none" =>
              /\ Len(procs) = args.num
              /\ \A i \in 1..Len(procs) : procs[i].launched + WarmupTicks <= ping.start
              /\ args.num >= 1 => ping.start = procs[args.num].launched + WarmupTicks

\* a run with two launches apart in time, a warmup, and the probe started
C1_Witness ==
    /\ LoadMode
    /\ args.warmup > 0
    /\ Len(procs) = 2
    /\ procs[2].launched > procs[1].launched
    /\ ping.state = "running"
    /\ ping.start = procs[2].launched + WarmupTicks

\* C2: in load mode the report is printed only once every one of the N
\* sessions has delivered its result and the probe has completed; with a
\* session that never exits it is never printed.
C2_ReportOnlyAfterAllComplete ==
    (LoadMode /\ ReportPrinted) =>
        /\ Len(procs) = args.num
        /\ \A i \in 1..Len(procs) : procs[i].state = "collected"
        /\ ping.state = "done"

\* a load-mode run of two sessions that printed its report
C2_Witness ==
    /\ LoadMode
    /\ pc = "done"
    /\ ReportPrinted
    /\ Len(procs) = 2

\* c = ceil(a / b) for b # 0, stated without division
IsCeilOfRatio(c, a, b) ==
    IF b > 0 THEN c * b >= a /\ (c - 1) * b < a
    ELSE c * b <= a /\ (c - 1) * b > a

\* C3: in idle mode no session is ever launched, at most one probe is created
\* and a finished run created exactly one, with count = ceil(duration/interval)
\* at the configured interval; the report is printed only once the probe has
\* completed and holds no throughput line, whatever num and warmup are.
C3_IdleProbeOnly ==
    args.idle =>
        /\ procs = <<>>
        /\ pingCalls <= 1
        /\ ping.state # "none" =>
              /\ pingCalls = 1
              /\ ping.interval = args.interval
              /\ IsCeilOfRatio(ping.count, args.length * TicksPerSecond, args.interval)
        /\ pc = "done" => pingCalls = 1
        /\ ReportPrinted => ping.state = "done"
        /\ ~ThroughputPrinted

\* an idle run with sessions and a warmup configured that printed its report
C3_Witness ==
    /\ args.idle
    /\ args.num >= 1
    /\ args.warmup > 0
    /\ pc = "done"
    /\ ReportPrinted
    /\ ping.count > args.length

\* C4 as claimed: at the moment the probe completes no session has finished,
\* however long the launches took (checked for valid parameters only).
C4_SessionsOutliveProbe ==
    (ValidConfig /\ LoadMode /\ ping.state = "done" /\ now = ping.ended) =>
        \A i \in 1..Len(procs) : procs[i].state = "running"

\* C4 as amended: a session launched less than warmup + 2 seconds before the
\* probe started is still running at the moment the probe completes.
C4_SessionsOutliveProbeWithinMargin ==
    (LoadMode /\ ping.state = "done" /\ now = ping.ended) =>
        \A i \in 1..Len(procs) :
            ping.start - procs[i].launched < WarmupTicks + 2 * TicksPerSecond
                => procs[i].state = "running"

\* the probe has just completed after two launches apart in time, both
\* sessions within the margin and running
C4_Witness ==
    /\ LoadMode
    /\ ping.state = "done"
    /\ now = ping.ended
    /\ now > ping.start
    /\ Len(procs) = 2
    /\ procs[2].launched > procs[1].launched
    /\ \A i \in 1..2 : procs[i].state = "running"

\* a standard output that is a number: digits, with white space around them
LooksNumeric(s) ==
    /\ \E j \in 1..Len(s) : IsDigit(s[j])
    /\ \A j \in 1..Len(s) : IsDigit(s[j]) \/ IsSpace(s[j])

BadOutput(i) == procs[i].state = "collected" /\ ~LooksNumeric(procs[i].stdout)

\* C5: once a session's standard output is read and is empty or no number,
\* the run has ended with the error of the failed parse and no line of the
\* report is printed; a printed report or a completed run has no such session.
C5_BadOutputIsFatal ==
    /\ (\E i \in 1..Len(procs) : BadOutput(i)) =>
          /\ pc = "error"
          /\ error = "ValueError"
          /\ ~ReportPrinted
    /\ (pc = "done" \/ ReportPrinted) => \A i \in 1..Len(procs) : ~BadOutput(i)

\* the second session read fine, the first did not, the probe had completed
C5_Witness ==
    /\ Len(procs) = 2
    /\ BadOutput(1)
    /\ procs[2].state = "collected"
    /\ ping.state = "done"
    /\ pc = "error"

\* C6 as claimed: with interval <= 0, or in load mode num < 1, the run fails
\* before any session or probe is launched.
C6_ConfigurationErrorBeforeLaunch ==
    (args.interval <= 0 \/ (LoadMode /\ args.num < 1)) =>
        /\ procs = <<>>
        /\ pingCalls = 0
        /\ pc \in {"start", "error"}

\* C7 as claimed: a run that ends with the probe's failure ends at the moment
\* the probe failed, not after the sessions have completed (checked for valid
\* parameters only).
C7_ProbeFailureEndsRunAtOnce ==
    (ValidConfig /\ LoadMode /\ pc = "error" /\ error = "PingError") =>
        endTime = ping.ended

\* C8 as claimed: a probe that completed without samples ends the run in an
\* error with no line of the report printed (checked for valid parameters only).
C8_EmptySamplesNoPartialReport ==
    (ValidConfig /\ Terminated /\ ping.state = "done" /\ ping.rtts = <<>>) =>
        /\ pc = "error"
        /\ ~ReportPrinted

\* C9 as claimed: reading the result of a session that exited with a non-zero
\* status aborts the run, so that its value is never part of the sum (checked
\* for valid parameters only).
C9_NonZeroExitIsFatal ==
    \A i \in 1..Len(procs) :
        (ValidConfig /\ procs[i].state = "collected" /\ procs[i].returncode # 0) =>
            pc = "error"

\* the congruent duration main computed, as printed in its first line
CongruentDuration == out[1].value

\* C10 as claimed: congruentDuration >= duration and
\* congruentDuration - duration < interval.
C10_WithinOneInterval ==
    (out # <<>> /\ args.interval > 0) =>
        /\ CongruentDuration >= args.length
        /\ (CongruentDuration - args.length) * TicksPerSecond < args.interval

\* C10 as amended: congruentDuration >= duration and
\* congruentDuration - duration < interval + 1 second.
C10_WithinOneIntervalPlusOneSecond ==
    (out # <<>> /\ args.interval > 0) =>
        /\ CongruentDuration >= args.length
        /\ (CongruentDuration - args.length) * TicksPerSecond
              < args.interval + TicksPerSecond

\* a duration the rounding inflates by a whole second, more than the interval
C10_Witness ==
    /\ out # <<>>
    /\ args.interval > 0
    /\ args.interval < TicksPerSecond
    /\ CongruentDuration = args.length + 1

RECURSIVE ResultsUpTo(_)
ResultsUpTo(n) == IF n = 0 THEN 0 ELSE procs[n].value + ResultsUpTo(n - 1)

\* C12: once gather has returned in load mode, all N sessions have delivered
\* their result and the aggregate throughput is the sum of these N results,
\* each taken once, in whatever order the sessions completed; a throughput
\* line in the report shows this sum.
C12_ThroughputIsSumOfAll ==
    (LoadMode /\ pc \in {"await_ping", "done"}) =>
        /\ Len(procs) = args.num
        /\ \A i \in 1..Len(procs) : procs[i].state = "collected"
        /\ speed = ResultsUpTo(Len(procs))
        /\ \A k \in 1..Len(out) :
              out[k].label \in {"Upload", "Download"} =>
                  out[k].value = 100 * ResultsUpTo(Len(procs))

\* a finished run of two sessions with different results, 7 then 0, whose
\* report shows 7.00
C12_Witness ==
    /\ LoadMode
    /\ pc = "done"
    /\ Len(procs) = 2
    /\ procs[1].value = 7
    /\ procs[2].value = 0
    /\ \E k \in 1..Len(out) : out[k].label = "Upload" /\ out[k].value = 700

\* C13 as claimed: a completed run's report holds the throughput line exactly
\* when the run is in load mode, whatever the summed throughput is, 0 included
\* (checked for valid parameters and a probe with samples only).
C13_ThroughputLineIffLoadMode ==
    (ValidConfig /\ pc = "done" /\ ping.rtts # <<>>) =>
        /\ ThroughputPrinted <=> LoadMode
        /\ \A k \in 1..Len(out) :
              out[k].label \in {"Upload", "Download"} => out[k].value = 100 * speed

\* C14: while main is launching, the next launch can return whatever state
\* the sessions launched so far are in, and main awaits or has read the result
\* of a session only when all N sessions have been launched.
C14_AllLaunchedBeforeAnyAwaited ==
    /\ pc = "launch" => ENABLED LaunchReturn
    /\ (pc = "gather" \/ \E i \in 1..Len(procs) : procs[i].state = "collected") =>
          Len(procs) = args.num

\* the second of two sessions was launched while the first was running, and
\* its result has been read while the first is running still
C14_Witness ==
    /\ pc = "gather"
    /\ Len(procs) = 2
    /\ procs[1].state = "running"
    /\ procs[2].state = "collected"

LabelCount(l) == Cardinality({ k \in 1..Len(out) : out[k].label = l })

\* every line of the latency report is there, once
ReportPrintedOnce ==
    \A l \in ReportLabels \ {"Upload", "Download"} : LabelCount(l) = 1

\* the parameters are valid, every launch succeeded, every result read is a
\* number from a session that exited with status 0, and the probe has not
\* failed nor ended without a sample
NominalRun ==
    /\ ValidConfig
    /\ error # "OSError"
    /\ \A i \in 1..Len(procs) :
          procs[i].state = "collected" =>
              LooksNumeric(procs[i].stdout) /\ procs[i].returncode = 0
    /\ ping.state # "failed"
    /\ ~(ping.state = "done" /\ ping.rtts = <<>>)

\* C15: with every launched session and the probe coming to an end, the run
\* terminates; it ends with no line of the report printed twice, and a run
\* whose sessions and probe all delivered valid results ends having printed
\* its report exactly once.
C15_RunTerminatesWithOneReport ==
    <>(/\ Terminated
       /\ \A l \in ReportLabels : LabelCount(l) <= 1
       /\ NominalRun => pc = "done" /\ ReportPrintedOnce)

\* a load-mode run of two sessions and a warmup that ended with its report
C15_Witness ==
    /\ LoadMode
    /\ NominalRun
    /\ args.warmup > 0
    /\ Len(procs) = 2
    /\ pc = "done"
    /\ ReportPrintedOnce

\* the k-th smallest of the samples r, found by counting
OrderStat(r, k) ==
    CHOOSE x \in { r[j] : j \in 1..Len(r) } :
        /\ Cardinality({ j \in 1..Len(r) : r[j] < x }) < k
        /\ Cardinality({ j \in 1..Len(r) : r[j] <= x }) >= k

\* the value printed in the report line labelled l
LineValue(l) == out[CHOOSE k \in 1..Len(out) : out[k].label = l].value

\* C16: in a report printed from n >= 1 samples the median is the value
\* half-way between the samples at ranks floor((n-1)/2) and ceil((n-1)/2) of
\* the ascending order (the middle sample when n is odd), and with a single
\* sample the 10th, 50th and 90th percentiles all are that sample.
C16_MedianIsInterpolatedMiddle ==
    (pc = "done" /\ ping.rtts # <<>>) =>
        LET r  == ping.rtts
            n  == Len(r)
            lo == OrderStat(r, (n - 1) \div 2 + 1)
            hi == OrderStat(r, n \div 2 + 1)
        IN  /\ 2 * LineValue("Median:") = (lo + hi) * 1000
            /\ n % 2 = 1 => LineValue("Median:") = lo * 1000
            /\ n = 1 =>
                  /\ LineValue("10pct:") = r[1] * 1000
                  /\ LineValue("Median:") = r[1] * 1000
                  /\ LineValue("90pct:") = r[1] * 1000

\* a report printed from two samples out of order, its median between them
C16_Witness ==
    /\ pc = "done"
    /\ ping.rtts = <<6, 2>>
    /\ LineValue("Median:") = 4000

\* C17: in load mode at most one probe is ever started, and once main awaits
\* the sessions, or has read the result of one, exactly one probe has been
\* started, with count = ceil(duration / interval) at the configured interval.
C17_OneProbeBeforeSessionsAwaited ==
    LoadMode =>
        /\ pingCalls <= 1
        /\ (\/ pc \in {"gather", "await_ping", "done"}
            \/ \E i \in 1..Len(procs) : procs[i].state = "collected") =>
              /\ pingCalls = 1
              /\ ping.state # "none"
              /\ ping.interval = args.interval
              /\ IsCeilOfRatio(ping.count, args.length * TicksPerSecond, args.interval)

\* main awaits two running sessions while the probe, with more samples to
\* take than the duration has seconds, is running too
C17_Witness ==
    /\ LoadMode
    /\ pc = "gather"
    /\ pingCalls = 1
    /\ ping.state = "running"
    /\ ping.count > args.length
    /\ Len(procs) = 2
    /\ \A i \in 1..2 : procs[i].state = "running"

\* C18: in load mode never more than N sessions are launched, once the
\* launches are over (main sleeps, awaits, or has started the probe) exactly N
\* are, and every launched session was given the length
\* congruentDuration + warmup + 2, with a warmup of 0 too.
C18_ExactlyNSessionsOfFullLength ==
    LoadMode =>
        /\ Len(procs) <= args.num
        /\ (pc \in {"warmup", "gather", "await_ping", "done"} \/ ping.state # "none") =>
              Len(procs) = args.num
        /\ \A i \in 1..Len(procs) :
              procs[i].length = CongruentDuration + args.warmup + 2

\* two sessions launched with a warmup, each for the full length
C18_Witness ==
    /\ LoadMode
    /\ args.warmup > 0
    /\ pc = "gather"
    /\ Len(procs) = 2
    /\ \A i \in 1..2 : procs[i].length = CongruentDuration + args.warmup + 2

\* C19 as claimed: when the run has terminated, with its report or with a
\* fatal error, none of the sessions it launched is still running (checked
\* for valid parameters only).
C19_NoSessionLeftRunning ==
    (ValidConfig /\ Terminated) =>
        \A i \in 1..Len(procs) : procs[i].state # "running"

====
